---- MODULE Spec2Model ----
(***************************************************************************)
(* Model of the BME69x Raspberry Pi (pigpio) platform shim and of the      *)
(* custom self-test program.                                               *)
(*                                                                         *)
(*   src/examples/common/common.c       bus callbacks, interface init,     *)
(*                                      deinit                             *)
(*   src/examples/self_test/self_test.c custom_selftest_check and main     *)
(*                                                                         *)
(* The Board I/O library (pigpio) and the Sensor Driver (bme69x.c) are     *)
(* external: every result they return is a nondeterministic input, drawn   *)
(* from the values their API documents.  The library's set of handles      *)
(* that were opened and not yet closed is kept as i2c_open / spi_open;     *)
(* only i2cOpen / spiOpen add to it and only i2cClose / spiClose remove    *)
(* from it.  The bus traffic the Sensor Driver causes during its own calls *)
(* goes through the callbacks modelled here and changes none of the shim's *)
(* state; the self-test program records the driver calls themselves.       *)
(*                                                                         *)
(* Floating point measurement values are modelled by integer samples that  *)
(* straddle every range boundary; pressure is in Pa as the driver reports  *)
(* it.  Lengths are bounded by MaxLen, so the uint32 wrap of len + 1 and   *)
(* the (int)len cast do not occur within the model.                        *)
(***************************************************************************)
EXTENDS Integers, Sequences, FiniteSets, TLC

VARIABLES
    i2c_handle,   \* static int i2c_handle
    spi_handle,   \* static int spi_handle
    dev_addr,     \* static uint8_t dev_addr
    gpioUp,       \* Board I/O library: initialised and not terminated
    i2c_open,     \* Board I/O library: I2C handles opened and not closed
    spi_open,     \* Board I/O library: SPI handles opened and not closed
    bme,          \* the caller's struct bme69x_dev
    op,           \* the last shim call: name, arguments, returned status
    calls,        \* the Board I/O calls the last shim call made, in order
    pre,          \* the shim state when the last shim call started
    pc,           \* position of the self-test program
    rslt,         \* int8_t rslt of main
    st_rslt,      \* int8_t rslt of custom_selftest_check
    trace,        \* every call main and the self-test made, with its status
    data,         \* struct bme69x_data of the self-test
    n_fields,     \* uint8_t n_fields of the self-test
    console,      \* warning and verdict lines printed
    exit_code     \* process exit code

shim_vars == <<i2c_handle, spi_handle, dev_addr, gpioUp, i2c_open, spi_open, bme>>
call_vars == <<op, calls, pre>>
main_vars == <<pc, rslt, st_rslt, trace, data, n_fields, console, exit_code>>
vars == <<shim_vars, call_vars, main_vars>>

----------------------------------------------------------------------------
(* Bounds of the model *)

\* Largest handle value the library hands out per bus (handles are 0..MaxHandle).
MaxHandle == 1
\* Largest len passed to a bus callback.
MaxLen == 2

----------------------------------------------------------------------------
(* Status codes and interface selectors (bme69x_defs.h names) *)

BME69X_OK == "BME69X_OK"
BME69X_E_NULL_PTR == "BME69X_E_NULL_PTR"
BME69X_E_COM_FAIL == "BME69X_E_COM_FAIL"
BME69X_E_INVALID_LENGTH == "BME69X_E_INVALID_LENGTH"
BME69X_E_DEV_NOT_FOUND == "BME69X_E_DEV_NOT_FOUND"
BME69X_E_SELF_TEST == "BME69X_E_SELF_TEST"
BME69X_W_NO_NEW_DATA == "BME69X_W_NO_NEW_DATA"
BME69X_INTF_RET_SUCCESS == BME69X_OK

BME69X_I2C_INTF == "BME69X_I2C_INTF"
BME69X_SPI_INTF == "BME69X_SPI_INTF"
\* uint8_t intf: the two selectors and a value that is neither.
IntfValues == {BME69X_I2C_INTF, BME69X_SPI_INTF, "OTHER_INTF"}

\* A field of the device struct that nothing has assigned yet.
Indeterminate == "indeterminate"

\* The functions the shim installs into the device struct.
ShimFunctions == {"bme69x_i2c_read", "bme69x_i2c_write", "bme69x_spi_read",
                  "bme69x_spi_write", "bme69x_delay_us"}

----------------------------------------------------------------------------
(* Input domains *)

Handles == 0 .. MaxHandle
\* Negative results of i2cOpen / spiOpen (the library's error codes).
OpenErrors == {-2}
\* Register addresses: both halves of the uint8_t range and their edges.
RegAddrs == {0, 127, 128, 255}
\* Payloads the caller writes: len distinct bytes in ascending order (so that
\* a reordering shows), and len bytes with every bit set.
Payloads(len) == {[i \in 1 .. len |-> i], [i \in 1 .. len |-> 255]}
\* Bytes the device answers with.
RxBytes == {97}
Lens == 0 .. MaxLen

RECURSIVE SeqsOfLen(_, _)
SeqsOfLen(S, n) ==
    IF n = 0 THEN {<<>>}
    ELSE {Append(s, x) : s \in SeqsOfLen(S, n - 1), x \in S}

----------------------------------------------------------------------------
(* Bit operations on uint8_t *)

RECURSIVE BitAnd(_, _, _)
BitAnd(a, b, bits) ==
    IF bits = 0 THEN 0
    ELSE (IF a % 2 = 1 /\ b % 2 = 1 THEN 1 ELSE 0)
         + 2 * BitAnd(a \div 2, b \div 2, bits - 1)

RECURSIVE BitOr(_, _, _)
BitOr(a, b, bits) ==
    IF bits = 0 THEN 0
    ELSE (IF a % 2 = 1 \/ b % 2 = 1 THEN 1 ELSE 0)
         + 2 * BitOr(a \div 2, b \div 2, bits - 1)

----------------------------------------------------------------------------
(* One Board I/O call: primitive, handle, transmitted frame, count, result *)

Call(prim, handle, buf, count, result) ==
    [prim |-> prim, handle |-> handle, buf |-> buf, count |-> count,
     result |-> result]

\* Variant: only the initial value -1 counts as not open.
HandleNotOpen_OnlyMinusOne(handle) == handle = -1

\* The guard every bus callback starts with.
HandleNotOpen(handle) == handle < 0

\* The check on a transfer primitive's result in all four callbacks.
XferFailed(result) == result < 0

\* The check on i2cReadDevice's byte count.
ReadShort(result, len) == result # len

----------------------------------------------------------------------------
(* The four bus callbacks: the status returned, the Board I/O calls made   *)
(* and the bytes stored into the caller's reg_data.                        *)

Result(ret, cs, out) == [ret |-> ret, calls |-> cs, out |-> out]

Zeros(n) == [i \in 1 .. n |-> 0]

Prefix(s, n) == SubSeq(s, 1, IF n < 0 THEN 0 ELSE IF n > Len(s) THEN Len(s) ELSE n)

\* len + 1, the size of every framing buffer and transfer.  len is a uint32_t
\* and the sum wraps at 2^32, beyond the lengths (0 .. MaxLen) the model draws.
FrameCount(len) == len + 1

\* buffer[0] = reg_addr; buffer[i + 1] = reg_data[i]
I2cWriteFrame(reg_addr, reg_data) == <<reg_addr>> \o reg_data

\* Variant: the write marker is not cleared.
SpiWriteFrame_KeepsTopBit(reg_addr, reg_data) == <<reg_addr>> \o reg_data

\* tx_buffer[0] = reg_addr & 0x7F; tx_buffer[i + 1] = reg_data[i]
SpiWriteFrame(reg_addr, reg_data) == <<BitAnd(reg_addr, 127, 8)>> \o reg_data

\* tx_buffer[0] = reg_addr | 0x80; tx_buffer[i] = 0
SpiReadFrame(reg_addr, len) == <<BitOr(reg_addr, 128, 8)>> \o Zeros(len)

\* wres: result of i2cWriteDevice; rres: result of i2cReadDevice; rx: the
\* bytes the device sends.
bme69x_i2c_read(handle, reg_addr, len, wres, rres, rx) ==
    IF HandleNotOpen(handle) THEN Result(BME69X_E_COM_FAIL, <<>>, <<>>)
    ELSE LET c1 == Call("i2cWriteDevice", handle, <<reg_addr>>, 1, wres)
             c2 == Call("i2cReadDevice", handle, <<>>, len, rres)
         IN  IF XferFailed(wres) THEN Result(BME69X_E_COM_FAIL, <<c1>>, <<>>)
             ELSE IF ReadShort(rres, len)
                  THEN Result(BME69X_E_COM_FAIL, <<c1, c2>>, Prefix(rx, rres))
                  ELSE Result(BME69X_INTF_RET_SUCCESS, <<c1, c2>>, Prefix(rx, rres))

bme69x_i2c_write(handle, reg_addr, reg_data, len, wres) ==
    IF HandleNotOpen(handle) THEN Result(BME69X_E_COM_FAIL, <<>>, <<>>)
    ELSE LET c1 == Call("i2cWriteDevice", handle,
                        I2cWriteFrame(reg_addr, reg_data), FrameCount(len), wres)
         IN  IF XferFailed(wres) THEN Result(BME69X_E_COM_FAIL, <<c1>>, <<>>)
             ELSE Result(BME69X_INTF_RET_SUCCESS, <<c1>>, <<>>)

\* xres: result of spiXfer; rx: the len + 1 bytes of rx_buffer after the call
\* (what was clocked in, and whatever the stack held beyond a short transfer).
bme69x_spi_read(handle, reg_addr, len, xres, rx) ==
    IF HandleNotOpen(handle) THEN Result(BME69X_E_COM_FAIL, <<>>, <<>>)
    ELSE LET c1 == Call("spiXfer", handle, SpiReadFrame(reg_addr, len),
                        FrameCount(len), xres)
         IN  IF XferFailed(xres) THEN Result(BME69X_E_COM_FAIL, <<c1>>, <<>>)
             ELSE Result(BME69X_INTF_RET_SUCCESS, <<c1>>,
                         [i \in 1 .. len |-> rx[i + 1]])

bme69x_spi_write(handle, reg_addr, reg_data, len, wres) ==
    IF HandleNotOpen(handle) THEN Result(BME69X_E_COM_FAIL, <<>>, <<>>)
    ELSE LET c1 == Call("spiWrite", handle,
                        SpiWriteFrame(reg_addr, reg_data), FrameCount(len), wres)
         IN  IF XferFailed(wres) THEN Result(BME69X_E_COM_FAIL, <<c1>>, <<>>)
             ELSE Result(BME69X_INTF_RET_SUCCESS, <<c1>>, <<>>)

----------------------------------------------------------------------------
(* Results the Board I/O primitives can report *)

\* i2cWriteDevice: 0 if OK, otherwise a negative error code.
I2cWriteResults == {-1, 0}
\* i2cReadDevice, spiXfer, spiWrite: the number of bytes transferred
\* (at most count), otherwise a negative error code.  Drawn: an error,
\* nothing moved, one byte short, everything moved.
CountResults(count) == {r \in {-1, 0, count - 1, count} : r >= -1}

----------------------------------------------------------------------------
(* Recording a shim call *)

Snapshot ==
    [i2c_handle |-> i2c_handle, spi_handle |-> spi_handle,
     dev_addr |-> dev_addr, gpioUp |-> gpioUp,
     i2c_open |-> i2c_open, spi_open |-> spi_open, bme |-> bme]

Op(name, intf, dev_null, reg_addr, reg_data, len, ret, out) ==
    [name |-> name, intf |-> intf, dev_null |-> dev_null,
     reg_addr |-> reg_addr, data |-> reg_data, len |-> len,
     ret |-> ret, out |-> out]

NoOp == Op("none", "none", FALSE, 0, <<>>, 0, "none", <<>>)

\* A bus callback changes none of the shim's state.
Callback(name, reg_addr, reg_data, len, r) ==
    /\ op' = Op(name, "none", FALSE, reg_addr, reg_data, len, r.ret, r.out)
    /\ calls' = r.calls
    /\ pre' = Snapshot
    /\ UNCHANGED shim_vars

----------------------------------------------------------------------------
(* bme69x_interface_init *)

ChipIds == {"BME69X_CHIP_ID", "OTHER_CHIP_ID"}

\* What a call leaves behind: the shim state, the status, the library calls.
Outcome(s, ret, cs) == [s |-> s, ret |-> ret, calls |-> cs]

LibCall(prim, handle, result) == Call(prim, handle, <<>>, 0, result)

\* if (i2c_handle < 0) / if (spi_handle < 0) after the open
OpenFailed(handle) == handle < 0

\* Variant: the open failure returns without gpioTerminate().
InitOpenFailure_NoTerminate(s, cs) == [s |-> s, ret |-> "BME69X_E_COM_FAIL", calls |-> cs]

\* gpioTerminate(); return BME69X_E_COM_FAIL;
InitOpenFailure(s, cs) ==
    Outcome([s EXCEPT !.gpioUp = FALSE], BME69X_E_COM_FAIL,
            Append(cs, LibCall("gpioTerminate", -1, 0)))

\* bme->read = ...; bme->write = ...; bme->intf = ...
InstallBus(dev, read, write, intf) ==
    [dev EXCEPT !.read = read, !.write = write, !.intf = intf]

\* bme->delay_us = bme69x_delay_us; bme->intf_ptr = &dev_addr; bme->amb_temp = 25
InstallCommon(dev) ==
    [dev EXCEPT !.delay_us = "bme69x_delay_us", !.intf_ptr = "&dev_addr",
                !.amb_temp = 25]

InitI2c(s, cs, open_res) ==
    LET s1 == [s EXCEPT !.dev_addr = "BME69X_I2C_ADDR_HIGH",
                        !.i2c_handle = open_res]
        cs1 == Append(cs, LibCall("i2cOpen", -1, open_res))
    IN  IF OpenFailed(s1.i2c_handle) THEN InitOpenFailure(s1, cs1)
        ELSE Outcome([s1 EXCEPT
                        !.i2c_open = @ \cup {open_res},
                        !.bme = InstallCommon(InstallBus(@, "bme69x_i2c_read",
                                    "bme69x_i2c_write", BME69X_I2C_INTF))],
                     BME69X_OK, cs1)

InitSpi(s, cs, open_res) ==
    LET s1 == [s EXCEPT !.spi_handle = open_res]
        cs1 == Append(cs, LibCall("spiOpen", -1, open_res))
    IN  IF OpenFailed(s1.spi_handle) THEN InitOpenFailure(s1, cs1)
        ELSE Outcome([s1 EXCEPT
                        !.spi_open = @ \cup {open_res},
                        !.bme = InstallCommon(InstallBus(@, "bme69x_spi_read",
                                    "bme69x_spi_write", BME69X_SPI_INTF))],
                     BME69X_OK, cs1)

\* gpio_ok: gpioInitialise() >= 0; open_res: result of i2cOpen / spiOpen.
bme69x_interface_init(s, dev_null, intf, gpio_ok, open_res) ==
    IF dev_null THEN Outcome(s, BME69X_E_NULL_PTR, <<>>)
    ELSE IF ~gpio_ok
    THEN Outcome(s, BME69X_E_COM_FAIL, <<LibCall("gpioInitialise", -1, -1)>>)
    ELSE LET s1 == [s EXCEPT !.gpioUp = TRUE]
             cs == <<LibCall("gpioInitialise", -1, 0)>>
         IN  IF intf = BME69X_I2C_INTF THEN InitI2c(s1, cs, open_res)
             ELSE IF intf = BME69X_SPI_INTF THEN InitSpi(s1, cs, open_res)
             ELSE Outcome([s1 EXCEPT !.bme = InstallCommon(@)], BME69X_OK, cs)

\* The library hands out the lowest handle that is not in use.
LowestFree(open) ==
    IF Handles \ open = {} THEN {}
    ELSE {CHOOSE h \in Handles \ open : \A g \in Handles \ open : h <= g}

\* What the library can answer to an open: the next free handle, or an error
\* code (always an error once every handle is in use).
OpenResults(intf) ==
    IF intf = BME69X_I2C_INTF THEN LowestFree(i2c_open) \cup OpenErrors
    ELSE IF intf = BME69X_SPI_INTF THEN LowestFree(spi_open) \cup OpenErrors
    ELSE {-1}

----------------------------------------------------------------------------
(* bme69x_pigpio_deinit *)

\* Variant: the handle is closed but not reset to -1.
DeinitI2c_NoReset(o) ==
    IF o.s.i2c_handle >= 0
    THEN [s |-> [o.s EXCEPT !.i2c_open = @ \ {o.s.i2c_handle}], ret |-> o.ret,
          calls |-> Append(o.calls, [prim |-> "i2cClose", handle |-> o.s.i2c_handle,
                                     buf |-> <<>>, count |-> 0, result |-> 0])]
    ELSE o

\* if (i2c_handle >= 0) { i2cClose(i2c_handle); i2c_handle = -1; }
DeinitI2c(o) ==
    IF o.s.i2c_handle >= 0
    THEN Outcome([o.s EXCEPT !.i2c_open = @ \ {o.s.i2c_handle},
                             !.i2c_handle = -1],
                 o.ret, Append(o.calls, LibCall("i2cClose", o.s.i2c_handle, 0)))
    ELSE o

\* if (spi_handle >= 0) { spiClose(spi_handle); spi_handle = -1; }
DeinitSpi(o) ==
    IF o.s.spi_handle >= 0
    THEN Outcome([o.s EXCEPT !.spi_open = @ \ {o.s.spi_handle},
                             !.spi_handle = -1],
                 o.ret, Append(o.calls, LibCall("spiClose", o.s.spi_handle, 0)))
    ELSE o

\* gpioTerminate();
DeinitGpio(o) ==
    Outcome([o.s EXCEPT !.gpioUp = FALSE], o.ret,
            Append(o.calls, LibCall("gpioTerminate", -1, 0)))

bme69x_pigpio_deinit(s) == DeinitGpio(DeinitSpi(DeinitI2c(Outcome(s, "void", <<>>))))

----------------------------------------------------------------------------
(* Shim calls as steps *)

Install(s) ==
    /\ i2c_handle' = s.i2c_handle
    /\ spi_handle' = s.spi_handle
    /\ dev_addr' = s.dev_addr
    /\ gpioUp' = s.gpioUp
    /\ i2c_open' = s.i2c_open
    /\ spi_open' = s.spi_open
    /\ bme' = s.bme

InterfaceInitCall(dev_null, intf) ==
    \E gpio_ok \in BOOLEAN, open_res \in OpenResults(intf) :
        LET o == bme69x_interface_init(Snapshot, dev_null, intf, gpio_ok, open_res)
        IN  /\ Install(o.s)
            /\ op' = Op("bme69x_interface_init", intf, dev_null, 0, <<>>, 0,
                        o.ret, <<>>)
            /\ calls' = o.calls
            /\ pre' = Snapshot

DeinitCall ==
    LET o == bme69x_pigpio_deinit(Snapshot)
    IN  /\ Install(o.s)
        /\ op' = Op("bme69x_pigpio_deinit", "none", FALSE, 0, <<>>, 0, o.ret, <<>>)
        /\ calls' = o.calls
        /\ pre' = Snapshot

----------------------------------------------------------------------------
(* The shim under any caller: any sequence of Init, Deinit and callbacks *)

FreshDev(chip_id) ==
    [read |-> Indeterminate, write |-> Indeterminate, delay_us |-> Indeterminate,
     intf |-> Indeterminate, intf_ptr |-> Indeterminate, amb_temp |-> 0,
     chip_id |-> chip_id]

NoData == [temperature |-> 0, pressure |-> 0, humidity |-> 0, status |-> {},
           idac |-> 0]

\* The statics as the program starts, and the caller's device struct, which
\* nothing has filled in yet.
ShimInit(chip_ids) ==
    /\ bme \in {FreshDev(c) : c \in chip_ids}
    /\ i2c_handle = -1
    /\ spi_handle = -1
    /\ dev_addr = "0"
    /\ gpioUp = FALSE
    /\ i2c_open = {}
    /\ spi_open = {}
    /\ op = NoOp
    /\ calls = <<>>
    /\ pre = Snapshot

MainIdle ==
    /\ rslt = "none"
    /\ st_rslt = "none"
    /\ trace = <<>>
    /\ data = NoData
    /\ n_fields = 0
    /\ console = <<>>
    /\ exit_code = -1

Init ==
    /\ ShimInit({"OTHER_CHIP_ID"})
    /\ MainIdle
    /\ pc = "api"

ApiInit ==
    /\ pc = "api"
    /\ \E dev_null \in BOOLEAN, intf \in IntfValues : InterfaceInitCall(dev_null, intf)
    /\ UNCHANGED main_vars

ApiDeinit ==
    /\ pc = "api"
    /\ DeinitCall
    /\ UNCHANGED main_vars

ApiI2cRead ==
    /\ pc = "api"
    /\ \E reg_addr \in RegAddrs, len \in Lens, wres \in I2cWriteResults :
         \E rres \in CountResults(len), rx \in SeqsOfLen(RxBytes, len) :
            Callback("bme69x_i2c_read", reg_addr, <<>>, len,
                     bme69x_i2c_read(i2c_handle, reg_addr, len, wres, rres, rx))
    /\ UNCHANGED main_vars

ApiI2cWrite ==
    /\ pc = "api"
    /\ \E reg_addr \in RegAddrs, len \in Lens, wres \in I2cWriteResults :
         \E reg_data \in Payloads(len) :
            Callback("bme69x_i2c_write", reg_addr, reg_data, len,
                     bme69x_i2c_write(i2c_handle, reg_addr, reg_data, len, wres))
    /\ UNCHANGED main_vars

ApiSpiRead ==
    /\ pc = "api"
    /\ \E reg_addr \in RegAddrs, len \in Lens :
         \E xres \in CountResults(FrameCount(len)),
            rx \in SeqsOfLen(RxBytes, FrameCount(len)) :
            Callback("bme69x_spi_read", reg_addr, <<>>, len,
                     bme69x_spi_read(spi_handle, reg_addr, len, xres, rx))
    /\ UNCHANGED main_vars

ApiSpiWrite ==
    /\ pc = "api"
    /\ \E reg_addr \in RegAddrs, len \in Lens :
         \E wres \in CountResults(FrameCount(len)),
            reg_data \in Payloads(len) :
            Callback("bme69x_spi_write", reg_addr, reg_data, len,
                     bme69x_spi_write(spi_handle, reg_addr, reg_data, len, wres))
    /\ UNCHANGED main_vars

Next ==
    \/ ApiInit
    \/ ApiDeinit
    \/ ApiI2cRead
    \/ ApiI2cWrite
    \/ ApiSpiRead
    \/ ApiSpiWrite

Spec == Init /\ [][Next]_vars

----------------------------------------------------------------------------
(* The self-test program: main and custom_selftest_check *)

\* Statuses the Sensor Driver's calls report: success, an error, a warning.
DriverRslts == {BME69X_OK, BME69X_E_COM_FAIL, BME69X_W_NO_NEW_DATA}

\* Measurement samples on both sides of every range boundary.
Temperatures == {-1, 0, 25, 60, 61}
Pressures == {29999, 30000, 120000, 120001}
Humidities == {-1, 0, 100, 101}
StatusBits == {"BME69X_NEW_DATA_MSK", "BME69X_GASM_VALID_MSK", "BME69X_HEAT_STAB_MSK"}
Idacs == {0, 255}
\* bme69x_get_meas_dur's estimate, in microseconds.
MeasDurs == {4810}

DataSamples ==
    [temperature : Temperatures, pressure : Pressures, humidity : Humidities,
     status : SUBSET StatusBits, idac : Idacs]

\* One call made by main or by the self-test: its status, its argument where
\* it has a numeric one, and whether the interface was ready for the driver
\* (a bus handle open and that bus's callbacks in the device) when made.
Entry(call, r, arg) ==
    [call |-> call, rslt |-> r, arg |-> arg,
     ready |-> \/ (i2c_handle >= 0 /\ bme.read = "bme69x_i2c_read"
                     /\ bme.write = "bme69x_i2c_write")
               \/ (spi_handle >= 0 /\ bme.read = "bme69x_spi_read"
                     /\ bme.write = "bme69x_spi_write")]

\* bme69x_check_rslt: prints a line unless the status is BME69X_OK.
bme69x_check_rslt(api_name, r) ==
    IF r = BME69X_OK THEN <<>>
    ELSE IF r = BME69X_E_NULL_PTR THEN <<api_name \o ": Null pointer">>
    ELSE IF r = BME69X_E_COM_FAIL THEN <<api_name \o ": Communication failure">>
    ELSE IF r = BME69X_E_INVALID_LENGTH THEN <<api_name \o ": Incorrect length parameter">>
    ELSE IF r = BME69X_E_DEV_NOT_FOUND THEN <<api_name \o ": Device not found">>
    ELSE IF r = BME69X_E_SELF_TEST THEN <<api_name \o ": Self test error">>
    ELSE IF r = BME69X_W_NO_NEW_DATA THEN <<api_name \o ": No new data found">>
    ELSE <<api_name \o ": Unknown error code">>

\* A quotient kept as numerator and denominator: data.pressure / 100.0f
Quot(num, den) == [num |-> num, den |-> den]
QuotLess(q, k) == q.num < k * q.den
QuotGreater(q, k) == q.num > k * q.den

\* Variant: the upper temperature limit itself is rejected.
TemperatureOutOfRange_UpperExclusive(d) == d.temperature < 0 \/ d.temperature >= 60

\* if (data.temperature < 0 || data.temperature > 60)
TemperatureOutOfRange(d) == d.temperature < 0 \/ d.temperature > 60

\* pressure_hpa = data.pressure / 100.0f;
\* if (pressure_hpa < 300 || pressure_hpa > 1200)
PressureOutOfRange(d) ==
    LET pressure_hpa == Quot(d.pressure, 100)
    IN  QuotLess(pressure_hpa, 300) \/ QuotGreater(pressure_hpa, 1200)

\* if (data.humidity < 0 || data.humidity > 100)
HumidityOutOfRange(d) == d.humidity < 0 \/ d.humidity > 100

\* Step 5: the first range violated ends the self-test.
ValidateRanges(d) ==
    IF TemperatureOutOfRange(d) THEN BME69X_E_SELF_TEST
    ELSE IF PressureOutOfRange(d) THEN BME69X_E_SELF_TEST
    ELSE IF HumidityOutOfRange(d) THEN BME69X_E_SELF_TEST
    ELSE BME69X_OK

\* Step 6 and the summary: lines only, no status.
GasLines(d) ==
    (IF "BME69X_NEW_DATA_MSK" \in d.status /\ "BME69X_GASM_VALID_MSK" \in d.status
     THEN IF "BME69X_HEAT_STAB_MSK" \in d.status
          THEN <<"Gas sensor working correctly">>
          ELSE <<"Warning: Heater not stable">>
     ELSE <<"Warning: Gas measurement issues detected">>)
    \o (IF "BME69X_HEAT_STAB_MSK" \notin d.status \/ d.idac = 255
        THEN <<"Warning: Heater not stable">>
        ELSE <<"All sensors including gas sensor working correctly">>)

\* Variant: the status of a fatal step is not checked.
Gate_Unchecked(r, next) == next

\* The gate after a fatal step: return the status, or go on.
Gate(r, next) == IF r # BME69X_OK THEN "main_report" ELSE next

\* return v; from custom_selftest_check into rslt of main
SelfTestReturn(v) ==
    /\ rslt' = v
    /\ pc' = "main_report"

MainInit ==
    /\ ShimInit(ChipIds)
    /\ MainIdle
    /\ pc = "interface_init"

\* rslt = bme69x_interface_init(&bme, BME69X_I2C_INTF); bme69x_check_rslt(...)
MainInterfaceInit ==
    /\ pc = "interface_init"
    /\ InterfaceInitCall(FALSE, BME69X_I2C_INTF)
    /\ rslt' = op'.ret
    /\ trace' = Append(trace, [Entry("bme69x_interface_init", op'.ret, 0)
                               EXCEPT !.ready = FALSE])
    /\ console' = console \o bme69x_check_rslt("bme69x_interface_init", op'.ret)
    /\ pc' = "bme69x_init"
    /\ UNCHANGED <<st_rslt, data, n_fields, exit_code>>

\* A call through a function pointer of the device that nothing assigned
\* has no defined outcome: the call may return, or the process may die.
PointerAssigned(ptr) == ptr \in ShimFunctions

Crash(call) ==
    /\ trace' = Append(trace, Entry(call, "crashed", 0))
    /\ pc' = "crashed"
    /\ UNCHANGED <<shim_vars, call_vars, rslt, st_rslt, data, n_fields, console,
                   exit_code>>

\* rslt = bme69x_init(&bme); bme69x_check_rslt(...)
\* The driver reads the chip identifier through dev->read and stores it.
MainDriverInit ==
    /\ pc = "bme69x_init"
    /\ \/ \E r \in DriverRslts, id \in ChipIds :
            /\ rslt' = r
            /\ bme' = [bme EXCEPT !.chip_id = id]
            /\ trace' = Append(trace, Entry("bme69x_init", r, 0))
            /\ console' = console \o bme69x_check_rslt("bme69x_init", r)
            /\ pc' = "st_chip_id"
            /\ UNCHANGED <<i2c_handle, spi_handle, dev_addr, gpioUp, i2c_open,
                           spi_open>>
            /\ UNCHANGED <<call_vars, st_rslt, data, n_fields, exit_code>>
       \/ /\ ~PointerAssigned(bme.read)
          /\ Crash("bme69x_init")

\* Step 1: if (dev->chip_id != BME69X_CHIP_ID) return BME69X_E_DEV_NOT_FOUND;
SelfTestChipId ==
    /\ pc = "st_chip_id"
    /\ IF bme.chip_id # "BME69X_CHIP_ID"
       THEN /\ SelfTestReturn(BME69X_E_DEV_NOT_FOUND)
            /\ console' = Append(console, "Chip ID mismatch")
       ELSE /\ pc' = "st_get_conf"
            /\ UNCHANGED <<rslt, console>>
    /\ UNCHANGED <<shim_vars, call_vars, st_rslt, trace, data, n_fields, exit_code>>

\* A fatal driver call of the self-test: rslt = call(...);
\* if (rslt != BME69X_OK) return rslt;
FatalDriverCall(at, call, next) ==
    /\ pc = at
    /\ \E r \in DriverRslts :
         /\ st_rslt' = r
         /\ trace' = Append(trace, Entry(call, r, 0))
         /\ pc' = Gate(r, next)
         /\ IF Gate(r, next) = "main_report"
            THEN /\ rslt' = r
                 /\ console' = Append(console, "Failed: " \o call)
            ELSE UNCHANGED <<rslt, console>>
    /\ UNCHANGED <<shim_vars, call_vars, data, n_fields, exit_code>>

\* Step 2: rslt = bme69x_get_conf(&conf, dev);
SelfTestGetConf == FatalDriverCall("st_get_conf", "bme69x_get_conf", "st_set_conf")

\* Step 2: rslt = bme69x_set_conf(&conf, dev);
SelfTestSetConf == FatalDriverCall("st_set_conf", "bme69x_set_conf", "st_set_heatr_conf")

\* Step 3: rslt = bme69x_set_heatr_conf(...); a failure only prints a warning.
SelfTestSetHeatrConf ==
    /\ pc = "st_set_heatr_conf"
    /\ \E r \in DriverRslts :
         /\ st_rslt' = r
         /\ trace' = Append(trace, Entry("bme69x_set_heatr_conf", r, 0))
         /\ console' = Append(console,
               IF r # BME69X_OK THEN "Warning: Heater configuration failed"
               ELSE "Heater configuration successful")
    /\ pc' = "st_set_op_mode"
    /\ UNCHANGED <<shim_vars, call_vars, rslt, data, n_fields, exit_code>>

\* Step 4: rslt = bme69x_set_op_mode(BME69X_FORCED_MODE, dev);
SelfTestSetOpMode == FatalDriverCall("st_set_op_mode", "bme69x_set_op_mode", "st_delay")

\* Step 4: del_period = bme69x_get_meas_dur(...) + heatr_conf.heatr_dur * 1000;
\* dev->delay_us(del_period, dev->intf_ptr);
SelfTestDelay ==
    /\ pc = "st_delay"
    /\ \/ /\ \E dur \in MeasDurs :
               trace' = trace \o <<Entry("bme69x_get_meas_dur", BME69X_OK, dur),
                                   Entry("delay_us", BME69X_OK, dur + 100 * 1000)>>
          /\ pc' = "st_get_data"
          /\ UNCHANGED <<shim_vars, call_vars, rslt, st_rslt, data, n_fields,
                         console, exit_code>>
       \/ /\ ~PointerAssigned(bme.delay_us)
          /\ Crash("delay_us")

\* Step 4: rslt = bme69x_get_data(BME69X_FORCED_MODE, &data, &n_fields, dev);
\* if (rslt != BME69X_OK || n_fields == 0) return BME69X_E_COM_FAIL;
SelfTestGetData ==
    /\ pc = "st_get_data"
    /\ \E r \in DriverRslts, n \in {0, 1} :
         /\ st_rslt' = r
         /\ n_fields' = n
         /\ trace' = Append(trace, Entry("bme69x_get_data", r, n))
         /\ IF r # BME69X_OK \/ n = 0
            THEN /\ SelfTestReturn(BME69X_E_COM_FAIL)
                 /\ console' = Append(console, "Failed to get measurement data")
                 /\ UNCHANGED data
            ELSE /\ data' \in DataSamples
                 /\ pc' = "st_validate"
                 /\ UNCHANGED <<rslt, console>>
    /\ UNCHANGED <<shim_vars, call_vars, exit_code>>

\* Steps 5 and 6 and the summary.
SelfTestValidate ==
    /\ pc = "st_validate"
    /\ SelfTestReturn(ValidateRanges(data))
    /\ console' = console \o
          (IF ValidateRanges(data) # BME69X_OK THEN <<"Out of valid range">>
           ELSE GasLines(data) \o <<"Custom self-test PASSED">>)
    /\ UNCHANGED <<shim_vars, call_vars, st_rslt, trace, data, n_fields, exit_code>>

\* if (rslt == BME69X_OK) printf(SUCCESSFUL) else printf(FAILED)
MainReport ==
    /\ pc = "main_report"
    /\ console' = Append(console, IF rslt = BME69X_OK
                                  THEN "Overall self-test SUCCESSFUL"
                                  ELSE "Self-test FAILED")
    /\ pc' = "main_deinit"
    /\ UNCHANGED <<shim_vars, call_vars, rslt, st_rslt, trace, data, n_fields,
                   exit_code>>

\* bme69x_pigpio_deinit();
MainDeinit ==
    /\ pc = "main_deinit"
    /\ DeinitCall
    /\ trace' = Append(trace, [Entry("bme69x_pigpio_deinit", "void", 0)
                               EXCEPT !.ready = FALSE])
    /\ pc' = "main_exit"
    /\ UNCHANGED <<rslt, st_rslt, data, n_fields, console, exit_code>>

\* return (rslt == BME69X_OK) ? 0 : 1;
ExitCode(r) == IF r = BME69X_OK THEN 0 ELSE 1

MainExit ==
    /\ pc = "main_exit"
    /\ exit_code' = ExitCode(rslt)
    /\ pc' = "done"
    /\ UNCHANGED <<shim_vars, call_vars, rslt, st_rslt, trace, data, n_fields,
                   console>>

NextMain ==
    \/ MainInterfaceInit
    \/ MainDriverInit
    \/ SelfTestChipId
    \/ SelfTestGetConf
    \/ SelfTestSetConf
    \/ SelfTestSetHeatrConf
    \/ SelfTestSetOpMode
    \/ SelfTestDelay
    \/ SelfTestGetData
    \/ SelfTestValidate
    \/ MainReport
    \/ MainDeinit
    \/ MainExit

SpecMain == MainInit /\ [][NextMain]_vars

----------------------------------------------------------------------------
(* Properties of the shim, checked under Spec *)

CallbackNames == {"bme69x_i2c_read", "bme69x_i2c_write",
                  "bme69x_spi_read", "bme69x_spi_write"}
TransferPrims == {"i2cWriteDevice", "i2cReadDevice", "spiXfer", "spiWrite"}

\* The handle of the bus the last callback belongs to, as the call started.
BusHandle ==
    IF op.name \in {"bme69x_i2c_read", "bme69x_i2c_write"} THEN pre.i2c_handle
    ELSE pre.spi_handle

CallsOf(prims) == {i \in 1 .. Len(calls) : calls[i].prim \in prims}

\* C1: a bus callback called while its bus's handle is not open (never
\* opened, open attempt failed, closed by Deinit) returns
\* communication-failure and invokes no transfer primitive.
C1_ClosedHandleFailsWithoutTransfer ==
    (op.name \in CallbackNames /\ BusHandle < 0)
        => (op.ret = BME69X_E_COM_FAIL /\ CallsOf(TransferPrims) = {})

\* C1 witness: SPI write after a failed spiOpen left its error code behind.
C1_Witness ==
    /\ op.name = "bme69x_spi_write"
    /\ pre.spi_handle = -2
    /\ op.len = 2
    /\ op.ret = BME69X_E_COM_FAIL

\* A transfer that moved everything it was asked to move: i2cWriteDevice
\* reports 0, the others report the byte count.
FullTransfer(c) ==
    IF c.prim = "i2cWriteDevice" THEN c.result = 0 ELSE c.result = c.count

\* C2: with the handle open, a callback returns communication-failure
\* whenever a transfer it made reported an error or a short transfer, and
\* success only when every transfer moved the full count.
C2_ErrorOrShortTransferFails ==
    (op.name \in CallbackNames /\ BusHandle >= 0)
        => /\ op.ret \in {BME69X_INTF_RET_SUCCESS, BME69X_E_COM_FAIL}
           /\ (op.ret = BME69X_INTF_RET_SUCCESS
                 <=> \A i \in CallsOf(TransferPrims) : FullTransfer(calls[i]))

WriteNames == {"bme69x_i2c_write", "bme69x_spi_write"}

\* The frame the last Write handed to its transfer primitive.
WriteFrameIs(addr_byte) ==
    /\ Len(calls) = 1
    /\ calls[1].prim \in {"i2cWriteDevice", "spiWrite"}
    /\ calls[1].count = op.len + 1
    /\ Len(calls[1].buf) = op.len + 1
    /\ calls[1].buf[1] = addr_byte
    /\ \A i \in 1 .. op.len : calls[1].buf[i + 1] = op.data[i]

\* C3 as stated: for I2C and SPI alike the frame has size length + 1, byte 0
\* is the caller's register address and bytes 1..length are the data.
C3_FrameStartsWithCallerAddress ==
    (op.name \in WriteNames /\ BusHandle >= 0) => WriteFrameIs(op.reg_addr)

\* C3 amended: the frame has size length + 1 and carries the data in order;
\* byte 0 is the register address for I2C and the register address with its
\* top bit cleared (the SPI write marker) for SPI.
C3_FrameStartsWithBusAddress ==
    (op.name \in WriteNames /\ BusHandle >= 0)
        => WriteFrameIs(IF op.name = "bme69x_spi_write"
                        THEN op.reg_addr % 128 ELSE op.reg_addr)

\* C3 witness: an SPI write of two bytes to an address with the top bit set.
C3_Witness ==
    /\ op.name = "bme69x_spi_write"
    /\ BusHandle >= 0
    /\ op.reg_addr = 255
    /\ op.data = <<1, 2>>
    /\ calls[1].buf = <<127, 1, 2>>

InitName == "bme69x_interface_init"
DeinitName == "bme69x_pigpio_deinit"

\* No handle recorded as open and the GPIO subsystem down.
Uninitialized(s) == s.i2c_handle < 0 /\ s.spi_handle < 0 /\ ~s.gpioUp

\* C4: Init called in the Uninitialized state on a device and failing
\* returns communication-failure and leaves the interface Uninitialized:
\* GPIO subsystem down, no handle recorded or left open, and no callback
\* installed into the device (the device struct is as it was).
C4_FailedInitStaysUninitialized ==
    (op.name = InitName /\ ~op.dev_null /\ Uninitialized(pre)
       /\ op.ret # BME69X_OK)
        => /\ op.ret = BME69X_E_COM_FAIL
           /\ Uninitialized(Snapshot)
           /\ i2c_open = pre.i2c_open
           /\ spi_open = pre.spi_open
           /\ bme = pre.bme
           /\ (pre.bme = FreshDev(pre.bme.chip_id)
                 => {bme.read, bme.write, bme.delay_us} \cap ShimFunctions = {})

\* C4 witness: the I2C open failed after the GPIO subsystem came up.
C4_Witness ==
    /\ op.name = InitName
    /\ op.intf = BME69X_I2C_INTF
    /\ Uninitialized(pre)
    /\ op.ret = BME69X_E_COM_FAIL
    /\ Len(calls) = 3
    /\ calls[2].prim = "i2cOpen"
    /\ calls[2].result < 0
    /\ calls[3].prim = "gpioTerminate"

\* C5: whenever Init returns success, for any requested interface, exactly
\* the requested bus has an open handle, read and write are that bus's
\* shim functions, delay is installed and the ambient temperature is 25.
C5_SuccessMeansRequestedBusReady ==
    (op.name = InitName /\ op.ret = BME69X_OK)
        => /\ op.intf \in {BME69X_I2C_INTF, BME69X_SPI_INTF}
           /\ (i2c_handle >= 0) <=> (op.intf = BME69X_I2C_INTF)
           /\ (spi_handle >= 0) <=> (op.intf = BME69X_SPI_INTF)
           /\ bme.read = (IF op.intf = BME69X_I2C_INTF THEN "bme69x_i2c_read"
                          ELSE "bme69x_spi_read")
           /\ bme.write = (IF op.intf = BME69X_I2C_INTF THEN "bme69x_i2c_write"
                           ELSE "bme69x_spi_write")
           /\ bme.delay_us = "bme69x_delay_us"
           /\ bme.amb_temp = 25

\* C6: at most one bus handle is active: the handles opened and not yet
\* closed, over both buses, never number more than one.
C6_AtMostOneHandleOpen ==
    Cardinality(i2c_open) + Cardinality(spi_open) <= 1

CloseCalls(prim) == {i \in 1 .. Len(calls) : calls[i].prim = prim}

\* One bus's part of Deinit: the recorded handle is closed exactly once if
\* it was open (and it was open in the library), nothing is closed if not.
ClosedOnceIfOpen(prim, handle, open) ==
    IF handle >= 0
    THEN /\ Cardinality(CloseCalls(prim)) = 1
         /\ \A i \in CloseCalls(prim) : calls[i].handle = handle
         /\ handle \in open
    ELSE CloseCalls(prim) = {}

C7_DeinitState ==
    (op.name = DeinitName)
        => /\ ClosedOnceIfOpen("i2cClose", pre.i2c_handle, pre.i2c_open)
           /\ ClosedOnceIfOpen("spiClose", pre.spi_handle, pre.spi_open)
           /\ Uninitialized(Snapshot)

C7_DeinitTwice ==
    (op.name = DeinitName /\ op'.name = DeinitName)
        => /\ CloseCalls("i2cClose")' = {}
           /\ CloseCalls("spiClose")' = {}
           /\ shim_vars' = shim_vars

\* C7: Deinit in any state closes each recorded open handle exactly once,
\* closes nothing that is not open and leaves both handles not open; a
\* Deinit that follows a Deinit closes nothing and changes nothing.
C7_DeinitIdempotent == []C7_DeinitState /\ [][C7_DeinitTwice]_vars

\* C7 witness: Deinit after an Init whose SPI open failed while an I2C
\* handle was open.
C7_Witness ==
    /\ op.name = DeinitName
    /\ pre.i2c_handle >= 0
    /\ pre.spi_handle = -2
    /\ i2c_handle = -1

----------------------------------------------------------------------------
(* Properties of the self-test program, checked under SpecMain *)

\* The Sensor Driver calls of the self-test, and its measurement delay.
SelfTestCalls == {"bme69x_get_conf", "bme69x_set_conf", "bme69x_set_heatr_conf",
                  "bme69x_set_op_mode", "bme69x_get_meas_dur", "delay_us",
                  "bme69x_get_data"}
\* The steps whose failure ends the self-test with the driver's status.
FatalCalls == {"bme69x_get_conf", "bme69x_set_conf", "bme69x_set_op_mode"}
\* Every Sensor Driver API call of the program.
DriverCalls == (SelfTestCalls \ {"delay_us"}) \cup {"bme69x_init"}

Returned == pc \in {"main_report", "main_deinit", "main_exit", "done"}

Positions(names) == {i \in 1 .. Len(trace) : trace[i].call \in names}

\* C8: the self-test's fatal steps gate the rest.  A chip identifier that
\* differs from the expected one returns device-not-found before any
\* self-test driver call; a failing get-conf, set-conf or set-op-mode is the
\* last self-test call made (no set-conf, heater-conf, set-op-mode, delay or
\* get-data after it) and its status is the status returned.
C8_FatalStepsGateTheRest ==
    /\ (Returned /\ bme.chip_id # "BME69X_CHIP_ID")
          => (rslt = BME69X_E_DEV_NOT_FOUND /\ Positions(SelfTestCalls) = {})
    /\ \A i \in Positions(FatalCalls) :
          trace[i].rslt # BME69X_OK
             => /\ \A j \in Positions(SelfTestCalls) : j <= i
                /\ Returned
                /\ rslt = trace[i].rslt

\* C8 witness: set-op-mode failed after the configuration and the heater
\* were set, and the run finished.
C8_Witness ==
    /\ pc = "done"
    /\ Positions({"bme69x_set_heatr_conf"}) # {}
    /\ \E i \in Positions({"bme69x_set_op_mode"}) :
          trace[i].rslt = BME69X_W_NO_NEW_DATA /\ rslt = BME69X_W_NO_NEW_DATA
    /\ exit_code = 1

\* The ranges of step 5: temperature in [0,60], pressure in [300,1200] hPa
\* (30000 to 120000 Pa), humidity in [0,100].
InRanges(d) ==
    /\ 0 <= d.temperature /\ d.temperature <= 60
    /\ 30000 <= d.pressure /\ d.pressure <= 120000
    /\ 0 <= d.humidity /\ d.humidity <= 100

\* A finished run in which the chip identifier matched and the
\* configuration, forced-mode and data calls succeeded with a field.
MeasuredRun ==
    /\ pc = "done"
    /\ bme.chip_id = "BME69X_CHIP_ID"
    /\ \A i \in Positions(FatalCalls) : trace[i].rslt = BME69X_OK
    /\ \E i \in Positions({"bme69x_get_data"}) :
          trace[i].rslt = BME69X_OK /\ trace[i].arg >= 1

\* C9: in such a run the result is success (exit code 0) exactly when all
\* three values are in range and self-test-error (exit code 1) otherwise,
\* whatever the heater configuration call returned and whatever the
\* status bits and the heater current index are.
C9_ResultIsRangeCheck ==
    MeasuredRun
        => IF InRanges(data)
           THEN rslt = BME69X_OK /\ exit_code = 0
           ELSE rslt = BME69X_E_SELF_TEST /\ exit_code = 1

\* C9 witness: every value on a range boundary, the heater configuration
\* failed, no status bit set, and the run succeeded.
C9_Witness ==
    /\ MeasuredRun
    /\ data.temperature = 60 /\ data.pressure = 30000 /\ data.humidity = 100
    /\ data.status = {} /\ data.idac = 255
    /\ \E i \in Positions({"bme69x_set_heatr_conf"}) : trace[i].rslt = BME69X_E_COM_FAIL
    /\ exit_code = 0

ErrorStatuses == {BME69X_E_NULL_PTR, BME69X_E_COM_FAIL, BME69X_E_INVALID_LENGTH,
                  BME69X_E_DEV_NOT_FOUND, BME69X_E_SELF_TEST}

\* C10: in main a failing interface Init or driver init ends the sequence:
\* no Sensor Driver call follows it, no driver call is made while the
\* interface is not ready, and the process exits with code 1.
C10_InitFailureAborts ==
    /\ \A i \in Positions({"bme69x_interface_init", "bme69x_init"}) :
          trace[i].rslt \in ErrorStatuses
             => /\ \A j \in Positions(DriverCalls) : j <= i
                /\ (pc = "done" => exit_code = 1)
    /\ \A j \in Positions(DriverCalls) : trace[j].ready

====
